---- MODULE Spec2Model ----
(***************************************************************************)
(* Model of the generative poster apps (app.py, 3_app.py, 4_app.py,        *)
(* 5_app.py): the CSV palette store of 5_app.py, the palette generators,   *)
(* the blob shape generator, the lighting model and the layered renderers. *)
(*                                                                         *)
(* Numbers are exact integers: a colour channel, a slider value or a       *)
(* uniform draw is an integer numerator over a denominator that each       *)
(* section names.                                                          *)
(***************************************************************************)
EXTENDS Integers, Sequences, FiniteSets, TLC

VARIABLES
    palette_file,   \* palette.csv on disk (5_app.py PALETTE_FILE)
    palette_df,     \* the table held by the last script run of 5_app.py
    ui,             \* what the last script run of 5_app.py did and showed
    py_rng,         \* state of Python's process-wide `random` generator
    np_rng,         \* state of numpy's process-wide `np.random` generator
    last,           \* the last call and what it returned
    prev            \* an earlier render, kept for comparison with `last`

vars == <<palette_file, palette_df, ui, py_rng, np_rng, last, prev>>

Min(a, b) == IF a < b THEN a ELSE b
Max(a, b) == IF a > b THEN a ELSE b
Range(s) == {s[i] : i \in 1..Len(s)}

(***************************************************************************)
(* 1. CSV palette file management (5_app.py)                               *)
(*                                                                         *)
(* A channel value is a number of tenths: 0.4 is 4, 1.0 is Unit.           *)
(* A file is [exists, parses, cols, rows]: `parses` is whether             *)
(* pd.read_csv can parse the bytes; cols is the header; a row maps each    *)
(* column of the header to the text of its field.                          *)
(***************************************************************************)
Unit == 10

ReqCols == {"name", "r", "g", "b"}

AbsentFile == [exists |-> FALSE, parses |-> FALSE, cols |-> {}, rows |-> <<>>]

DefaultRows ==
    << [name |-> "sky",    r |-> 4,  g |-> 7, b |-> 10],
       [name |-> "sun",    r |-> 10, g |-> 8, b |-> 2],
       [name |-> "forest", r |-> 2,  g |-> 6, b |-> 3] >>

\* The value pandas holds for a missing field (float nan).
NaN == "<nan>"

\* Field texts that pd.read_csv turns into NaN (its default na_values).
NaTokens == {"", "NA", "N/A", "NaN", "nan", "null", "NULL", "None", "n/a",
             "#N/A", "<NA>"}

\* pd.read_csv on one field of the name column.
ParseName(text) == IF text \in NaTokens THEN NaN ELSE text

\* DataFrame.to_csv on one cell of the name column (na_rep is "").
FormatName(v) == IF v = NaN THEN "" ELSE v

\* Python's == on two cells: nan equals nothing, not even itself.
PyEq(a, b) == a # NaN /\ b # NaN /\ a = b

ParseRow(row) ==
    [c \in DOMAIN row |-> IF c = "name" THEN ParseName(row[c]) ELSE row[c]]

FormatRow(row) ==
    [c \in DOMAIN row |-> IF c = "name" THEN FormatName(row[c]) ELSE row[c]]

\* df.to_csv(PALETTE_FILE, index=False): the file a table is written as.
to_csv(df) ==
    [exists |-> TRUE, parses |-> TRUE, cols |-> df.cols,
     rows |-> [i \in 1..Len(df.rows) |-> FormatRow(df.rows[i])]]

\* pd.read_csv(PALETTE_FILE): [raised, df].
read_csv(f) ==
    IF f.exists /\ f.parses
    THEN [raised |-> FALSE,
          df |-> [cols |-> f.cols,
                  rows |-> [i \in 1..Len(f.rows) |-> ParseRow(f.rows[i])]]]
    ELSE [raised |-> TRUE, df |-> [cols |-> {}, rows |-> <<>>]]

DefaultDf == [cols |-> ReqCols, rows |-> DefaultRows]

\* initialize_palette_csv(): the file afterwards.
initialize_palette_csv(f) ==
    IF ~f.exists THEN to_csv(DefaultDf) ELSE f

\* read_palette(): [file, raised, df], the file afterwards, whether an
\* exception leaves the function, and the table returned.
read_palette(f) ==
    LET f1 == IF ~f.exists THEN initialize_palette_csv(f) ELSE f
        first == read_csv(f1)
    IN  IF ~first.raised /\ ReqCols \subseteq first.df.cols
        THEN [file |-> f1, raised |-> FALSE, df |-> first.df]
        ELSE \* both the missing-column branch and the except branch
             LET f2 == initialize_palette_csv(f1)
                 again == read_csv(f2)
             IN  [file |-> f2, raised |-> again.raised, df |-> again.df]

\* save_palette(df): the file afterwards.
save_palette(df) == to_csv(df)

\* load_csv_palette(): [file, raised, colors].
load_csv_palette(f) ==
    LET got == read_palette(f)
    IN  IF got.raised
        THEN [file |-> got.file, raised |-> TRUE, colors |-> <<>>]
        ELSE IF ~({"r", "g", "b"} \subseteq got.df.cols) /\ got.df.rows # <<>>
        THEN [file |-> got.file, raised |-> TRUE, colors |-> <<>>]
        ELSE [file |-> got.file, raised |-> FALSE,
              colors |-> [i \in 1..Len(got.df.rows) |->
                             <<got.df.rows[i].r, got.df.rows[i].g, got.df.rows[i].b>>]]

(***************************************************************************)
(* 5_app.py, palette management UI.  Streamlit runs the whole script once  *)
(* per interaction, and st.button is True only in the run its click        *)
(* starts, so a run carries at most one click.                             *)
(***************************************************************************)
MaxRows == 5

\* Color names typed into st.text_input ("" is the empty field).
AddNames == {"", "sky", "sky2", "NA"}

\* (R, G, B) slider positions, in tenths.
AddColors == {<<1, 2, 3>>, <<5, 5, 5>>}

\* The rows of a table that a boolean mask keeps, in their order.
KeepRows(rows, mask) ==
    LET F[i \in 0..Len(rows)] ==
            IF i = 0 THEN <<>>
            ELSE IF mask[i] THEN Append(F[i - 1], rows[i]) ELSE F[i - 1]
    IN  F[Len(rows)]

\* palette_df["name"].values
NameValues(df) == [i \in 1..Len(df.rows) |-> df.rows[i].name]

\* new_name in palette_df["name"].values
NameIn(new_name, df) == \E i \in 1..Len(df.rows) : PyEq(df.rows[i].name, new_name)

\* pd.concat([palette_df, pd.DataFrame([{...}])], ignore_index=True)
concat(df, row) ==
    LET cols == df.cols \cup DOMAIN row
        Fill(rw) == [c \in cols |-> IF c \in DOMAIN rw THEN rw[c] ELSE NaN]
    IN  [cols |-> cols,
         rows |-> Append([i \in 1..Len(df.rows) |-> Fill(df.rows[i])], Fill(row))]

\* palette_df[palette_df["name"] != del_name]
DropName(df, del_name) ==
    [cols |-> df.cols,
     rows |-> KeepRows(df.rows,
                       [i \in 1..Len(df.rows) |-> ~PyEq(df.rows[i].name, del_name)])]

\* Lines 113-114: initialize_palette_csv(); palette_df = read_palette().
ScriptLoad(f) == read_palette(initialize_palette_csv(f))

\* The "Add New Color" expander with the button clicked (lines 125-137):
\* [df, file, msg, saved] from the loaded table and the file.
AddColor(df, f, new_name, rgb) ==
    IF new_name = ""
    THEN [df |-> df, file |-> f, msg |-> "error", saved |-> FALSE]
    ELSE IF NameIn(new_name, df)
    THEN [df |-> df, file |-> f, msg |-> "warning", saved |-> FALSE]
    ELSE LET df2 == concat(df, [name |-> new_name, r |-> rgb[1],
                                g |-> rgb[2], b |-> rgb[3]])
         IN  [df |-> df2, file |-> save_palette(df2), msg |-> "success",
              saved |-> TRUE]

\* The "Delete Color" expander with the button clicked (lines 141-146).
DeleteColor(df, f, del_name) ==
    LET df2 == DropName(df, del_name)
    IN  [df |-> df2, file |-> save_palette(df2), msg |-> "success", saved |-> TRUE]

NoRun == [op |-> "none"]

\* A run of the script with no button clicked.
RunIdle ==
    LET got == ScriptLoad(palette_file)
    IN  /\ ~got.raised
        /\ palette_file' = got.file
        /\ palette_df' = got.df
        /\ ui' = [op |-> "idle", loaded |-> got.df,
                  msg |-> IF got.df.rows = <<>> THEN "info" ELSE "",
                  saved |-> FALSE]
        /\ UNCHANGED <<py_rng, np_rng, last, prev>>

\* A run of the script with "Add Color" clicked.
RunAdd ==
    \E new_name \in AddNames, rgb \in AddColors :
        LET got == ScriptLoad(palette_file)
            res == AddColor(got.df, got.file, new_name, rgb)
        IN  /\ ~got.raised
            /\ Len(got.df.rows) < MaxRows
            /\ palette_file' = res.file
            /\ palette_df' = res.df
            /\ ui' = [op |-> "add", loaded |-> got.df, start |-> got.file,
                      name |-> new_name, rgb |-> rgb,
                      msg |-> res.msg, saved |-> res.saved]
            /\ UNCHANGED <<py_rng, np_rng, last, prev>>

\* A run of the script with "Delete Selected Color" clicked; the selectbox
\* offers palette_df["name"].tolist(), so the choice is one of its entries.
RunDelete ==
    LET got == ScriptLoad(palette_file)
    IN  /\ ~got.raised
        /\ got.df.rows # <<>>
        /\ \E k \in 1..Len(got.df.rows) :
              LET del_name == NameValues(got.df)[k]
                  res == DeleteColor(got.df, got.file, del_name)
              IN  /\ palette_file' = res.file
                  /\ palette_df' = res.df
                  /\ ui' = [op |-> "delete", loaded |-> got.df, start |-> got.file,
                            choice |-> k, name |-> del_name,
                            msg |-> res.msg, saved |-> res.saved]
        /\ UNCHANGED <<py_rng, np_rng, last, prev>>

NoCall == [op |-> "none"]

InitStore ==
    /\ palette_file = AbsentFile
    /\ palette_df = [cols |-> {}, rows |-> <<>>]
    /\ ui = NoRun
    /\ py_rng = 0
    /\ np_rng = 0
    /\ last = NoCall
    /\ prev = NoCall

NextStore == RunIdle \/ RunAdd \/ RunDelete

\* The palette editor of 5_app.py, started with no palette.csv.
Spec == InitStore /\ [][NextStore]_vars

(***************************************************************************)
(* read_palette() and load_csv_palette() called on any palette.csv.        *)
(***************************************************************************)
MaxInitRows == 2

AllCols == ReqCols \cup {"hex"}

SampleRows ==
    << [name |-> "sky", r |-> 4,  g |-> 7, b |-> 10, hex |-> "#66b2ff"],
       [name |-> "sun", r |-> 10, g |-> 8, b |-> 2,  hex |-> "#ffcc33"],
       [name |-> "ink", r |-> 0,  g |-> 0, b |-> 1,  hex |-> "#000019"],
       [name |-> "ash", r |-> 5,  g |-> 5, b |-> 5,  hex |-> "#808080"] >>

\* An existing file that pd.read_csv cannot parse (zero bytes, say).
GarbageFile == [exists |-> TRUE, parses |-> FALSE, cols |-> {}, rows |-> <<>>]

TableFile(cols, n) ==
    [exists |-> TRUE, parses |-> TRUE, cols |-> cols,
     rows |-> [i \in 1..n |-> [c \in cols |-> SampleRows[i][c]]]]

FileStates ==
    {AbsentFile, GarbageFile}
        \cup {TableFile(cols, n) : cols \in (SUBSET AllCols) \ {{}},
                                   n \in 0..Min(MaxInitRows, Len(SampleRows))}

\* A call of load_csv_palette(), which calls read_palette().
LoadPalette ==
    LET got == read_palette(palette_file)
        res == load_csv_palette(palette_file)
    IN  /\ palette_file' = res.file
        /\ last' = [op |-> "load_csv_palette", start |-> palette_file,
                    read_raised |-> got.raised, df |-> got.df,
                    raised |-> res.raised, colors |-> res.colors]
        /\ UNCHANGED <<palette_df, ui, py_rng, np_rng, prev>>

InitRepair ==
    /\ palette_file \in FileStates
    /\ palette_df = [cols |-> {}, rows |-> <<>>]
    /\ ui = NoRun
    /\ py_rng = 0
    /\ np_rng = 0
    /\ last = NoCall
    /\ prev = NoCall

NextRepair == LoadPalette

\* load_csv_palette() over every starting state of palette.csv.
SpecRepair == InitRepair /\ [][NextRepair]_vars

\* Whether a file needs the repair that C1 is about.
NeedsRepair(f) == ~f.exists \/ ~f.parses \/ ~(ReqCols \subseteq f.cols)

\* C1: after read_palette() on an absent, unparseable or column-lacking
\* palette.csv the file holds exactly the three default rows, the returned
\* table has the columns name, r, g, b, and neither read_palette nor
\* load_csv_palette raises.
C1_SelfRepair ==
    (last.op = "load_csv_palette" /\ NeedsRepair(last.start))
        => /\ palette_file = to_csv(DefaultDf)
           /\ last.df.cols = ReqCols
           /\ ~last.read_raised
           /\ ~last.raised

\* The part of C1 the code has: an absent file is created with the defaults.
C1_AbsentCreated ==
    (last.op = "load_csv_palette" /\ ~last.start.exists)
        => /\ palette_file = to_csv(DefaultDf)
           /\ last.df = DefaultDf
           /\ ~last.raised

(***************************************************************************)
(* Claims about the palette editor (specification Spec).                   *)
(***************************************************************************)
\* The texts of the name column of a file.
FileNames(f) == [i \in 1..Len(f.rows) |-> f.rows[i].name]

\* The table a file holds, as pd.read_csv gives it back.
Stored(f) == read_csv(f).df.rows

\* C2: Add Color with a name that occurs in the store shows a warning,
\* saves nothing and leaves the file as it was; with a non-empty name that
\* does not occur, the file afterwards is the old rows plus the one new row.
C2_AddRejectsDuplicate ==
    (ui.op = "add" /\ ui.name # "")
        => IF ui.name \in Range(FileNames(ui.start))
           THEN ui.msg = "warning" /\ ~ui.saved /\ palette_file = ui.start
           ELSE /\ ui.saved
                /\ Stored(palette_file) =
                       Append(Stored(ui.start),
                              ParseRow([name |-> ui.name, r |-> ui.rgb[1],
                                        g |-> ui.rgb[2], b |-> ui.rgb[3]]))

\* C3: the persisted table always has exactly the columns name, r, g, b,
\* pairwise distinct names, and every r, g, b within [0, 1].
C3_StoreInvariant ==
    palette_file.exists
        => /\ palette_file.cols = ReqCols
           /\ \A i, j \in 1..Len(palette_file.rows) :
                  i # j => palette_file.rows[i].name # palette_file.rows[j].name
           /\ \A i \in 1..Len(palette_file.rows) :
                  /\ palette_file.rows[i].r \in 0..Unit
                  /\ palette_file.rows[i].g \in 0..Unit
                  /\ palette_file.rows[i].b \in 0..Unit

\* C10: Delete Selected Color removes every row with the selected name,
\* keeps the other rows as they were and in their order, and writes the
\* table back.
C10_DeleteByName ==
    ui.op = "delete"
        => /\ ui.saved
           /\ Stored(palette_file) =
                  KeepRows(Stored(ui.start),
                           [i \in 1..Len(Stored(ui.start)) |->
                               Stored(ui.start)[i].name
                                   # Stored(ui.start)[ui.choice].name])

(***************************************************************************)
(* 2. Random generators.  `random` and `np.random` are two process-wide    *)
(* generators.  A generator state is a number below RngMod; a draw steps   *)
(* the state and returns it as the numerator u of the uniform value        *)
(* u / RngMod in [0, 1).  Seeding sets the state from the seed alone; a    *)
(* process starts with both generators in states nobody chose.             *)
(***************************************************************************)
RngMod == 4

RngStates == 0..(RngMod - 1)

\* The state after n draws from state s; also the numerator of draw n.
Nth(s, n) == (s + n) % RngMod

Step(s) == Nth(s, 1)

\* random.seed(seed) / np.random.seed(seed)
Seeded(seed) == seed % RngMod

\* np.random.rand(points) from state s: the numerators of the draws.
rand(s, points) == [i \in 1..points |-> Nth(s, i)]

(***************************************************************************)
(* 3. Blob shape (blob() of 3_app.py, 4_app.py and 5_app.py, one body).    *)
(*                                                                         *)
(* center and r are integers in one position unit; wobble is <<wn, wd>>,   *)
(* the fraction wn / wd.  The coordinates returned are integers in         *)
(* 1 / BlobDen(wobble) of that unit.  np.linspace(0, 2*pi, points) is      *)
(* exact in quarter turns when points - 1 divides 4.                       *)
(***************************************************************************)
PointCounts == {2, 3, 5}

\* np.linspace(0, 2 * math.pi, points), in quarter turns.
linspace(points) == [i \in 1..points |-> (4 * (i - 1)) \div (points - 1)]

\* np.cos and np.sin of a number of quarter turns.
cos(q) == CASE q % 4 = 0 -> 1 [] q % 4 = 1 -> 0 [] q % 4 = 2 -> -1 [] OTHER -> 0
sin(q) == CASE q % 4 = 0 -> 0 [] q % 4 = 1 -> 1 [] q % 4 = 2 -> 0 [] OTHER -> -1

BlobDen(wobble) == 2 * wobble[2] * RngMod

\* radii with the draw not centred: r * (1 + wobble * np.random.rand(points)).
RadiiNotCentred(r, wobble, us) ==
    [i \in 1..Len(us) |-> r * (BlobDen(wobble) + wobble[1] * 2 * us[i])]

\* radii = r * (1 + wobble * (np.random.rand(points) - 0.5)), times BlobDen.
Radii(r, wobble, us) ==
    [i \in 1..Len(us) |->
        r * (BlobDen(wobble) + wobble[1] * (2 * us[i] - RngMod))]

\* blob(center, r, points, wobble) with us the draws of np.random.rand:
\* the arrays x and y.
blob(center, r, points, wobble, us) ==
    LET angles == linspace(points)
        radii == Radii(r, wobble, us)
    IN  [x |-> [i \in 1..points |->
                   center[1] * BlobDen(wobble) + radii[i] * cos(angles[i])],
         y |-> [i \in 1..points |->
                   center[2] * BlobDen(wobble) + radii[i] * sin(angles[i])]]

(***************************************************************************)
(* 4. Lighting (4_app.py).  Fractions are pairs <<numerator, denominator>> *)
(* with a positive denominator.  A colour is a triple of fractions.        *)
(***************************************************************************)
Abs(n) == IF n < 0 THEN -n ELSE n

RECURSIVE Gcd(_, _)
Gcd(a, b) == IF b = 0 THEN a ELSE Gcd(b, a % b)

\* A fraction in lowest terms.
Norm(a) ==
    LET g == Gcd(Abs(a[1]), a[2]) IN <<a[1] \div g, a[2] \div g>>

QMul(a, b) == Norm(<<a[1] * b[1], a[2] * b[2]>>)
QSub(a, b) == Norm(<<a[1] * b[2] - b[1] * a[2], a[2] * b[2]>>)
QLe(a, b) == a[1] * b[2] <= b[1] * a[2]
QLt(a, b) == a[1] * b[2] < b[1] * a[2]
QEq(a, b) == a[1] * b[2] = b[1] * a[2]
QMax(a, b) == IF QLe(a, b) THEN b ELSE a
QMin(a, b) == IF QLe(a, b) THEN a ELSE b
QZero == <<0, 1>>
QOne == <<1, 1>>

\* colorsys.rgb_to_hsv(r, g, b) on channels that share one denominator:
\* [h, s, v].
rgb_to_hsv(rgb) ==
    LET d == rgb[1][2]
        r == rgb[1][1]
        g == rgb[2][1]
        b == rgb[3][1]
        maxc == Max(r, Max(g, b))
        minc == Min(r, Min(g, b))
        rangec == maxc - minc
        h6 == IF r = maxc THEN g - b
              ELSE IF g = maxc THEN 2 * rangec + b - r
              ELSE 4 * rangec + r - g
    IN  IF minc = maxc
        THEN [h |-> QZero, s |-> QZero, v |-> <<maxc, d>>]
        ELSE [h |-> <<h6 % (6 * rangec), 6 * rangec>>,
              s |-> <<rangec, maxc>>,
              v |-> <<maxc, d>>]

\* colorsys.hsv_to_rgb(h, s, v)
hsv_to_rgb(h, s, v) ==
    LET i == (6 * h[1]) \div h[2]
        f == <<(6 * h[1]) % h[2], h[2]>>
        p == QMul(v, QSub(QOne, s))
        q == QMul(v, QSub(QOne, QMul(s, f)))
        t == QMul(v, QSub(QOne, QMul(s, QSub(QOne, f))))
    IN  IF s[1] = 0 THEN <<v, v, v>>
        ELSE CASE i % 6 = 0 -> <<v, t, p>>
               [] i % 6 = 1 -> <<q, v, p>>
               [] i % 6 = 2 -> <<p, v, t>>
               [] i % 6 = 3 -> <<p, q, v>>
               [] i % 6 = 4 -> <<t, p, v>>
               [] OTHER     -> <<q, p, v>>

\* math.sqrt on a perfect square.
RECURSIVE SqrtFrom(_, _)
SqrtFrom(n, k) == IF k * k >= n THEN k ELSE SqrtFrom(n, k + 1)
sqrt(n) == SqrtFrom(n, 0)

\* 1 / 0.05, the distance at which the brightness factor reaches 0.
FalloffDen == 20

\* dist of get_lighting_effect_color, squared.
DistSq(blob_center, light_source) ==
    (light_source[1] - blob_center[1]) * (light_source[1] - blob_center[1])
        + (light_source[2] - blob_center[2]) * (light_source[2] - blob_center[2])

\* brightness_factor = 1.0 - (dist * 0.05)
brightness_factor(dist) == <<FalloffDen - dist, FalloffDen>>

\* max(0, min(1, x))
Clamp01Broken(x) == QMin(QOne, x)
Clamp01(x) == QMax(QZero, QMin(QOne, x))

\* get_lighting_effect_color(color_rgb, blob_center, light_source), for
\* points whose distance is a whole number.
get_lighting_effect_color(color_rgb, blob_center, light_source) ==
    LET dist == sqrt(DistSq(blob_center, light_source))
        hsv == rgb_to_hsv(color_rgb)
        new_v == Clamp01(QMul(hsv.v, brightness_factor(dist)))
    IN  hsv_to_rgb(hsv.h, hsv.s, new_v)

(***************************************************************************)
(* Calls of blob() and get_lighting_effect_color() on their own.           *)
(***************************************************************************)
\* Inputs of blob(): centers and radii in tenths, wobble in hundredths.
BlobCenters == {<<5, 5>>, <<0, 10>>}
BlobRadii == {3, 4}
BlobWobbles == {<<0, 100>>, <<15, 100>>, <<50, 100>>, <<100, 100>>}

\* Inputs of get_lighting_effect_color(): channels in tenths, positions in
\* whole units.
LightColors == {<<0, 0, 0>>, <<10, 10, 10>>, <<4, 7, 10>>, <<10, 8, 2>>,
                <<2, 6, 3>>, <<7, 2, 9>>}
LightPoints == {<<0, 0>>, <<0, 1>>, <<3, 4>>, <<12, 16>>, <<0, 21>>, <<21, 28>>}

Color(c) == <<(<<c[1], Unit>>), (<<c[2], Unit>>), (<<c[3], Unit>>)>>

CallBlob ==
    \E center \in BlobCenters, r \in BlobRadii, wobble \in BlobWobbles,
       points \in PointCounts :
        LET us == rand(np_rng, points)
            xy == blob(center, r, points, wobble, us)
        IN  /\ last' = [op |-> "blob", center |-> center, r |-> r,
                        wobble |-> wobble, points |-> points, us |-> us,
                        x |-> xy.x, y |-> xy.y]
            /\ np_rng' = Nth(np_rng, points)
            /\ UNCHANGED <<palette_file, palette_df, ui, py_rng, prev>>

CallLighting ==
    \E c \in LightColors, blob_center \in LightPoints, light_source \in LightPoints :
        LET d2 == DistSq(blob_center, light_source)
        IN  /\ sqrt(d2) * sqrt(d2) = d2
            /\ last' = [op |-> "get_lighting_effect_color", color |-> Color(c),
                        center |-> blob_center, light |-> light_source,
                        dist |-> sqrt(d2),
                        out |-> get_lighting_effect_color(Color(c), blob_center,
                                                          light_source)]
            /\ UNCHANGED <<palette_file, palette_df, ui, py_rng, np_rng, prev>>

InitShape ==
    /\ palette_file = AbsentFile
    /\ palette_df = [cols |-> {}, rows |-> <<>>]
    /\ ui = NoRun
    /\ py_rng \in RngStates
    /\ np_rng \in RngStates
    /\ last = NoCall
    /\ prev = NoCall

NextShape == CallBlob \/ CallLighting

\* blob() and get_lighting_effect_color() called with any inputs.
SpecShape == InitShape /\ [][NextShape]_vars

(***************************************************************************)
(* Claims about blob() and get_lighting_effect_color() (SpecShape).        *)
(***************************************************************************)
\* Squared distance of point i of the last blob from its center, and the
\* squares of r * (1 - wobble / 2) and r * (1 + wobble / 2), all in
\* 1 / BlobDen of the position unit.
BlobDistSq(i) ==
    LET D == BlobDen(last.wobble)
        dx == last.x[i] - last.center[1] * D
        dy == last.y[i] - last.center[2] * D
    IN  dx * dx + dy * dy

BlobLoSq ==
    LET lo == last.r * (BlobDen(last.wobble) - last.wobble[1] * RngMod)
    IN  lo * lo

BlobHiSq ==
    LET hi == last.r * (BlobDen(last.wobble) + last.wobble[1] * RngMod)
    IN  hi * hi

BlobCountAndBand ==
    /\ Len(last.x) = last.points
    /\ Len(last.y) = last.points
    /\ \A i \in 1..last.points :
           BlobLoSq <= BlobDistSq(i) /\ BlobDistSq(i) <= BlobHiSq

\* C7 as claimed: blob() returns exactly n coordinate pairs, each at a
\* distance within r * (1 -+ wobble / 2) of the center, and the last point
\* coincides with the first.
C7_BlobClosedLoop ==
    last.op = "blob"
        => /\ BlobCountAndBand
           /\ last.x[last.points] = last.x[1]
           /\ last.y[last.points] = last.y[1]

\* C7 as amended: n coordinate pairs within the band; the last point lies
\* in the direction of the first (on the ray of angle 0 from the center)
\* at its own radius, so the two coincide exactly when their two draws are
\* equal or wobble is 0.
C7_BlobBandAndSeam ==
    last.op = "blob"
        => LET n == last.points
               D == BlobDen(last.wobble)
           IN  /\ BlobCountAndBand
               /\ last.y[1] = last.center[2] * D
               /\ last.y[n] = last.center[2] * D
               /\ last.x[1] > last.center[1] * D
               /\ last.x[n] > last.center[1] * D
               /\ (last.x[n] = last.x[1])
                      <=> (last.wobble[1] = 0 \/ last.us[n] = last.us[1])

\* A blob with wobble whose last point is not its first.
C7_Witness ==
    /\ last.op = "blob"
    /\ last.wobble[1] > 0
    /\ last.points = 3
    /\ last.x[last.points] # last.x[1]

\* HSV brightness of a colour: its largest channel.
Brightness(rgb) == QMax(rgb[1], QMax(rgb[2], rgb[3]))

\* C8: the colour get_lighting_effect_color returns has a brightness in
\* [0, 1] that is not above the input's and is 0 when 1 - 0.05 * dist is
\* negative.
C8_LightingBrightness ==
    last.op = "get_lighting_effect_color"
        => LET B == Brightness(last.out)
           IN  /\ QLe(QZero, B)
               /\ QLe(B, QOne)
               /\ QLe(B, Brightness(last.color))
               /\ (last.dist > FalloffDen => QEq(B, QZero))

\* A lit colour beyond distance 20 of a colour that is not black.
C8_Witness ==
    /\ last.op = "get_lighting_effect_color"
    /\ last.dist > FalloffDen
    /\ QLt(QZero, Brightness(last.color))
    /\ last.out = <<QZero, QZero, QZero>>

(***************************************************************************)
(* 5. Palette generators.  A generator takes the state s of `random` and   *)
(* gives [colors, rng]: the colours and the state afterwards.  Band edges  *)
(* are in hundredths.                                                      *)
(***************************************************************************)
\* random.random() as a fraction, from the numerator of the draw.
random(u) == <<u, RngMod>>

\* random.uniform(a, b) = a + (b - a) * random(), a and b in hundredths.
uniform(a, b, u) == <<a * RngMod + (b - a) * u, 100 * RngMod>>

\* random.randint(a, b)
randint(a, b, u) == a + (u * (b - a + 1)) \div RngMod

\* random.choice(seq)
choice(seq, u) == seq[1 + (u * Len(seq)) \div RngMod]

\* k colours hsv_to_rgb(random(), uniform(s band), uniform(v band)).
HsvBands(k, s, sLo, sHi, vLo, vHi) ==
    [colors |-> [j \in 1..k |->
                    hsv_to_rgb(random(Nth(s, 3 * (j - 1) + 1)),
                               uniform(sLo, sHi, Nth(s, 3 * (j - 1) + 2)),
                               uniform(vLo, vHi, Nth(s, 3 * (j - 1) + 3)))],
     rng |-> Nth(s, 3 * k)]

\* k colours (random(), random(), random()).
RgbNoise(k, s) ==
    [colors |-> [j \in 1..k |->
                    <<random(Nth(s, 3 * (j - 1) + 1)),
                      random(Nth(s, 3 * (j - 1) + 2)),
                      random(Nth(s, 3 * (j - 1) + 3))>>],
     rng |-> Nth(s, 3 * k)]

\* 3_app.py
random_palette_pastel_3(k, s) == HsvBands(k, s, 25, 45, 85, 100)
random_palette_vivid_3(k, s) == HsvBands(k, s, 80, 100, 90, 100)
random_palette_muted_3(k, s) == HsvBands(k, s, 10, 30, 50, 70)
random_palette_full_random_3(k, s) == RgbNoise(k, s)

\* 4_app.py
random_palette_pastel(k, s) == HsvBands(k, s, 25, 45, 85, 100)
random_palette_vivid(k, s) == HsvBands(k, s, 80, 100, 90, 100)

\* A mono palette that stops one colour short.
random_palette_mono_short(k, s) ==
    [colors |-> [i \in 1..(k - 1) |->
                    hsv_to_rgb(random(Nth(s, 1)), uniform(30, 60, Nth(s, i + 1)),
                               <<40 * k + 60 * (i - 1), 100 * k>>)],
     rng |-> Nth(s, k)]

random_palette_mono(k, s) ==
    [colors |-> [i \in 1..k |->
                    hsv_to_rgb(random(Nth(s, 1)), uniform(30, 60, Nth(s, i + 1)),
                               <<40 * k + 60 * (i - 1), 100 * k>>)],
     rng |-> Nth(s, k + 1)]

random_palette_noisetouch(k, s) == RgbNoise(k, s)

Styles4 == {"Pastel", "Vivid", "Mono", "NoiseTouch"}

\* get_palette(style, k)
get_palette(style, k, s) ==
    CASE style = "Pastel"     -> random_palette_pastel(k, s)
      [] style = "Vivid"      -> random_palette_vivid(k, s)
      [] style = "Mono"       -> random_palette_mono(k, s)
      [] style = "NoiseTouch" -> random_palette_noisetouch(k, s)
      [] OTHER                -> random_palette_vivid(k, s)

\* 5_app.py
Modes5 == {"csv", "pastel", "vivid", "mono", "random"}

\* base_h of make_palette, in hundredths.
base_h == 60

\* One pass of the loop body of make_palette for mode "mono":
\* h = (base_h + uniform(-0.05, 0.05)) % 1.0 and the s and v bands.
MonoColor(u1, u2, u3) ==
    LET h == uniform(base_h - 5, base_h + 5, u1)
    IN  hsv_to_rgb(<<h[1] % h[2], h[2]>>, uniform(20, 80, u2), uniform(50, 100, u3))

\* make_palette(k, mode) with palette.csv in state f: [colors, rng, file,
\* raised].
make_palette(k, mode, s, f) ==
    IF mode = "csv"
    THEN LET got == load_csv_palette(f)
         IN  [colors |-> [i \in 1..Len(got.colors) |-> Color(got.colors[i])],
              rng |-> s, file |-> got.file, raised |-> got.raised]
    ELSE LET res ==
                 CASE mode = "pastel" -> HsvBands(k, s, 15, 35, 90, 100)
                   [] mode = "vivid"  -> HsvBands(k, s, 80, 100, 80, 100)
                   [] mode = "mono"   ->
                          [colors |-> [j \in 1..k |->
                                          MonoColor(Nth(s, 3 * (j - 1) + 1),
                                                    Nth(s, 3 * (j - 1) + 2),
                                                    Nth(s, 3 * (j - 1) + 3))],
                           rng |-> Nth(s, 3 * k)]
                   [] OTHER           -> HsvBands(k, s, 30, 100, 50, 100)
         IN  [colors |-> res.colors, rng |-> res.rng, file |-> f, raised |-> FALSE]

(***************************************************************************)
(* Calls of the palette generators on their own.                           *)
(***************************************************************************)
MaxK == 4

\* A selector outside every variant's enumerated values.
UnknownStyle == "Neon"

PaletteFuncs3 == {"pastel", "vivid", "muted", "full_random"}

Call3(func, k, s) ==
    CASE func = "pastel" -> random_palette_pastel_3(k, s)
      [] func = "vivid"  -> random_palette_vivid_3(k, s)
      [] func = "muted"  -> random_palette_muted_3(k, s)
      [] OTHER           -> random_palette_full_random_3(k, s)

\* One of the four _random_palette_* functions of 3_app.py.
CallPalette3 ==
    \E func \in PaletteFuncs3, k \in 1..MaxK :
        LET res == Call3(func, k, py_rng)
        IN  /\ last' = [op |-> "palette", file |-> "3_app", style |-> func,
                        k |-> k, raised |-> FALSE, colors |-> res.colors]
            /\ py_rng' = res.rng
            /\ UNCHANGED <<palette_file, palette_df, ui, np_rng, prev>>

\* get_palette(style, k) of 4_app.py.
CallGetPalette ==
    \E style \in Styles4 \cup {UnknownStyle}, k \in 1..MaxK :
        LET res == get_palette(style, k, py_rng)
        IN  /\ last' = [op |-> "palette", file |-> "4_app", style |-> style,
                        k |-> k, raised |-> FALSE, colors |-> res.colors]
            /\ py_rng' = res.rng
            /\ UNCHANGED <<palette_file, palette_df, ui, np_rng, prev>>

\* make_palette(k, mode) of 5_app.py.
CallMakePalette ==
    \E mode \in Modes5 \cup {UnknownStyle}, k \in 1..MaxK :
        LET res == make_palette(k, mode, py_rng, palette_file)
        IN  /\ last' = [op |-> "palette", file |-> "5_app", style |-> mode,
                        k |-> k, raised |-> res.raised, colors |-> res.colors,
                        rows |-> Len(res.file.rows)]
            /\ py_rng' = res.rng
            /\ palette_file' = res.file
            /\ UNCHANGED <<palette_df, ui, np_rng, prev>>

InitPalette ==
    /\ palette_file \in {AbsentFile, to_csv(DefaultDf),
                         to_csv([cols |-> ReqCols, rows |-> <<>>]),
                         to_csv([cols |-> ReqCols, rows |-> SubSeq(DefaultRows, 1, 2)])}
    /\ palette_df = [cols |-> {}, rows |-> <<>>]
    /\ ui = NoRun
    /\ py_rng \in RngStates
    /\ np_rng = 0
    /\ last = NoCall
    /\ prev = NoCall

NextPalette == CallPalette3 \/ CallGetPalette \/ CallMakePalette

\* The palette generators of the three variants, called with any style.
SpecPalette == InitPalette /\ [][NextPalette]_vars

\* A colour with every channel in [0, 1].
InUnit(c) == \A i \in 1..3 : QLe(QZero, c[i]) /\ QLe(c[i], QOne)

\* C4 as claimed: every palette generator, the csv mode of make_palette
\* included, returns exactly k colours and never fails.
C4_ExactlyK ==
    last.op = "palette" => ~last.raised /\ Len(last.colors) = last.k

\* C4 as amended: the generated styles return exactly k colours; the csv
\* mode returns one colour per row of palette.csv, whatever k is.
C4_ExactlyKOrRows ==
    last.op = "palette"
        => /\ ~last.raised
           /\ IF last.file = "5_app" /\ last.style = "csv"
              THEN Len(last.colors) = last.rows
              ELSE Len(last.colors) = last.k

\* A csv palette whose size is not the k asked for.
C4_Witness ==
    /\ last.op = "palette"
    /\ last.file = "5_app"
    /\ last.style = "csv"
    /\ last.k = 1
    /\ Len(last.colors) = 3

\* Every generated colour has its channels in [0, 1].
PaletteInUnit ==
    last.op = "palette" => \A i \in 1..Len(last.colors) : InUnit(last.colors[i])

(***************************************************************************)
(* 6. Layered renderers.  A render gives [raised, py, np, n_layers,        *)
(* palette, blobs, calls]: the generator states afterwards, the blobs in   *)
(* generation order and the calls made on the axes `ax`, in order.         *)
(* A blob is [center, r, wobble, alpha, color, x, y].                      *)
(***************************************************************************)
\* Stand-in for the default `points` of blob() (200, 500 and 400 in the
\* three files): the model draws this many outline points per blob.
RenderPoints == 3

\* seed=None
None == -1

NoRender(py, np) ==
    [raised |-> TRUE, py |-> py, np |-> np, n_layers |-> 0, palette |-> <<>>,
     blobs |-> <<>>, calls |-> <<>>]

\* ---- 3_app.py ----
\* The style table of generate_poster with a branch for any other style.
Styles3Open == {"Pastel", "Minimal", "Vivid", "NoiseTouch", UnknownStyle}

\* The styles generate_poster has a branch for.
Styles3 == {"Pastel", "Minimal", "Vivid", "NoiseTouch"}

\* The style table of generate_poster: palette function, randint bounds of
\* n_layers, wobble_range in hundredths.
StyleTable3(style) ==
    CASE style = "Pastel"  -> [func |-> "pastel", lo |-> 8,  hi |-> 12, w |-> <<5, 25>>]
      [] style = "Minimal" -> [func |-> "muted",  lo |-> 3,  hi |-> 5,  w |-> <<1, 5>>]
      [] style = "Vivid"   -> [func |-> "vivid",  lo |-> 15, hi |-> 25, w |-> <<10, 30>>]
      [] OTHER             -> [func |-> "full_random", lo |-> 10, hi |-> 20, w |-> <<30, 60>>]

\* One pass of the "Draw blobs" loop of generate_poster; positions are in
\* 1 / (100 * RngMod).
Layer3(i, py, np, palette, w) ==
    LET center == <<100 * Nth(py, 1), 100 * Nth(py, 2)>>
        rr == uniform(15, 45, Nth(py, 3))[1]
        current_wobble == uniform(w[1], w[2], Nth(py, 4))
        xy == blob(center, rr, RenderPoints, current_wobble, rand(np, RenderPoints))
        color == choice(palette, Nth(py, 5))
        alpha == uniform(25, 70, Nth(py, 6))
    IN  [blob |-> [center |-> center, r |-> rr, wobble |-> current_wobble,
                   alpha |-> alpha, color |-> color, x |-> xy.x, y |-> xy.y],
         calls |-> << [call |-> "fill", layer |-> i, alpha |-> alpha] >>,
         py |-> Nth(py, 6), np |-> Nth(np, RenderPoints)]

\* The loop "for _ in range(n_layers)" from generator states py and np:
\* pass i starts after the 6 and RenderPoints draws of each earlier pass.
Layers3(n, py, np, palette, w) ==
    LET pass(i) == Layer3(i, Nth(py, 6 * (i - 1)), Nth(np, RenderPoints * (i - 1)),
                          palette, w)
        passes == [i \in 1..n |-> pass(i)]
    IN  [blobs |-> [i \in 1..n |-> passes[i].blob],
         calls |-> [i \in 1..n |-> passes[i].calls[1]],
         py |-> Nth(py, 6 * n), np |-> Nth(np, RenderPoints * n)]

\* The seeding of generate_poster and generate_3d_poster left out.
SeedNeverGiven(seed, s) == s

\* if seed is not None: random.seed(seed); np.random.seed(seed)
SeedIfGiven(seed, s) == IF seed # None THEN Seeded(seed) ELSE s

\* generate_poster(style, seed)
generate_poster(style, seed, py, np) ==
    LET py0 == SeedIfGiven(seed, py)
        np0 == SeedIfGiven(seed, np)
        st == StyleTable3(style)
        n_layers == randint(st.lo, st.hi, Nth(py0, 1))
        palette == Call3(st.func, randint(5, 7, Nth(py0, 2)), Nth(py0, 2))
        drawn == Layers3(n_layers, palette.rng, np0, palette.colors, st.w)
    IN  IF style \notin Styles3
        THEN NoRender(py0, np0)
        ELSE [raised |-> FALSE, py |-> drawn.py, np |-> drawn.np,
              n_layers |-> n_layers, palette |-> palette.colors,
              blobs |-> drawn.blobs,
              calls |-> << [call |-> "axis"], [call |-> "set_facecolor"] >>
                           \o drawn.calls
                           \o << [call |-> "text"], [call |-> "text"],
                                 [call |-> "set_xlim"], [call |-> "set_ylim"] >>]

\* ---- 4_app.py ----
shadow_layers == 5

\* for i in range(shadow_layers, 0, -1), run in increasing order instead.
ShadowOrderRising == [j \in 1..shadow_layers |-> j]

\* for i in range(shadow_layers, 0, -1)
ShadowOrder == [j \in 1..shadow_layers |-> shadow_layers + 1 - j]

\* The shadow loop of draw_blob_with_all_effects: current_alpha is
\* shadow_base_alpha * (i / shadow_layers) = 0.06 * i / 5.
Shadows(layer) ==
    [j \in 1..shadow_layers |->
        [call |-> "fill", layer |-> layer, offset |-> ShadowOrder[j],
         alpha |-> <<6 * ShadowOrder[j], 100 * shadow_layers>>]]

\* draw_gradient_blob(ax, x, y, base_color, alpha, edge_color): the outline
\* patch is added first, then the gradient image clipped to it.
draw_gradient_blob(layer, base_color, alpha, edge_color) ==
    << [call |-> "add_patch", layer |-> layer, edgecolor |-> edge_color],
       [call |-> "imshow", layer |-> layer, alpha |-> alpha, base |-> base_color] >>

\* draw_blob_with_all_effects(ax, palette, light_source, wobble, edge_color);
\* positions are in 1 / (100 * RngMod * RngMod).  final_color is kept as
\* the arguments of get_lighting_effect_color.
draw_blob_with_all_effects(layer, py, np, palette, light_source, wobble, edge_color) ==
    LET cy == Nth(py, 2)
        center == <<100 * RngMod * Nth(py, 1), 100 * RngMod * cy>>
        rr == 10 * RngMod * RngMod + (30 * RngMod - 25 * cy) * Nth(py, 3)
        alpha == <<80 * RngMod - 40 * cy, 100 * RngMod>>
        xy == blob(center, rr, RenderPoints, wobble, rand(np, RenderPoints))
        original_color == choice(palette, Nth(py, 4))
        final_color == [lit |-> original_color,
                        center |-> <<random(Nth(py, 1)), random(cy)>>,
                        light |-> light_source]
    IN  [blob |-> [center |-> center, r |-> rr, wobble |-> wobble,
                   alpha |-> alpha, color |-> final_color, x |-> xy.x, y |-> xy.y],
         calls |-> Shadows(layer)
                       \o draw_gradient_blob(layer, final_color, alpha, edge_color),
         py |-> Nth(py, 4), np |-> Nth(np, RenderPoints)]

\* The calls one blob makes on ax: the shadow copies and the two calls of
\* draw_gradient_blob.
CallsPerBlob4 == shadow_layers + 2

\* The loop "for _ in range(num_layers)" from generator states py and np:
\* pass i starts after the 4 and RenderPoints draws of each earlier pass.
Layers4(n, py, np, palette, light_source, wobble, edge_color) ==
    LET pass(i) == draw_blob_with_all_effects(i, Nth(py, 4 * (i - 1)),
                                              Nth(np, RenderPoints * (i - 1)),
                                              palette, light_source, wobble,
                                              edge_color)
        passes == [i \in 1..n |-> pass(i)]
    IN  [blobs |-> [i \in 1..n |-> passes[i].blob],
         calls |-> [j \in 1..(n * CallsPerBlob4) |->
                       passes[((j - 1) \div CallsPerBlob4) + 1]
                           .calls[((j - 1) % CallsPerBlob4) + 1]],
         py |-> Nth(py, 4 * n), np |-> Nth(np, RenderPoints * n)]

\* generate_3d_poster(num_layers, num_colors, wobble, light_x, light_y,
\* edge_color, palette_style, seed)
generate_3d_poster(num_layers, num_colors, wobble, light_source, edge_color, palette_style, seed, py, np) ==
    LET py0 == SeedIfGiven(seed, py)
        np0 == SeedIfGiven(seed, np)
        palette == get_palette(palette_style, num_colors, py0)
        drawn == Layers4(num_layers, palette.rng, np0, palette.colors,
                         light_source, wobble, edge_color)
    IN  [raised |-> FALSE, py |-> drawn.py, np |-> drawn.np,
         n_layers |-> num_layers, palette |-> palette.colors,
         blobs |-> drawn.blobs,
         calls |-> << [call |-> "axis"] >>
                      \o drawn.calls
                      \o << [call |-> "text"], [call |-> "set_xlim"],
                            [call |-> "set_ylim"] >>]

\* ---- 5_app.py ----
\* One pass of the loop of redraw_poster with draw_single_blob; positions
\* are in 1 / (100 * RngMod).
Layer5(i, py, np, palette, wobble_val) ==
    LET center == <<100 * Nth(py, 1), 100 * Nth(py, 2)>>
        rr == uniform(10, 40, Nth(py, 3))[1]
        alpha == uniform(10, 50, Nth(py, 4))
        color == choice(palette, Nth(py, 5))
        xy == blob(center, rr, RenderPoints, wobble_val, rand(np, RenderPoints))
    IN  [blob |-> [center |-> center, r |-> rr, wobble |-> wobble_val,
                   alpha |-> alpha, color |-> color, x |-> xy.x, y |-> xy.y],
         calls |-> << [call |-> "fill", layer |-> i, alpha |-> alpha,
                       color |-> color] >>,
         py |-> Nth(py, 5), np |-> Nth(np, RenderPoints)]

\* The loop "for _ in range(n_layers)" from generator states py and np:
\* pass i starts after the 5 and RenderPoints draws of each earlier pass.
Layers5(n, py, np, palette, wobble_val) ==
    LET pass(i) == Layer5(i, Nth(py, 5 * (i - 1)), Nth(np, RenderPoints * (i - 1)),
                          palette, wobble_val)
        passes == [i \in 1..n |-> pass(i)]
    IN  [blobs |-> [i \in 1..n |-> passes[i].blob],
         calls |-> [i \in 1..n |-> passes[i].calls[1]],
         py |-> Nth(py, 5 * n), np |-> Nth(np, RenderPoints * n)]

\* A fallback colour of (0, 0, 0) instead.
FallbackPaletteBlack == << Color(<<0, 0, 0>>) >>

\* The fallback colour (0.5, 0.5, 0.5) of redraw_poster.
FallbackPalette == << Color(<<5, 5, 5>>) >>

\* random.seed(seed_val); np.random.seed(seed_val), with seed 0 skipped.
Reseed5UnlessZero(seed_val, s) == IF seed_val = 0 THEN s ELSE Seeded(seed_val)

\* random.seed(seed_val); np.random.seed(seed_val)
Reseed5(seed_val, s) == Seeded(seed_val)

\* Lines 84-86 and 92-102 of redraw_poster: the blobs `drawn` between the
\* set-up calls and the label and limits.
Framed5(palette, file, drawn) ==
    [raised |-> FALSE, py |-> drawn.py, np |-> drawn.np,
     n_layers |-> Len(drawn.blobs), palette |-> palette, blobs |-> drawn.blobs,
     calls |-> << [call |-> "clear"], [call |-> "set_facecolor"],
                  [call |-> "axis"] >>
                  \o drawn.calls
                  \o << [call |-> "text"], [call |-> "set_xlim"],
                        [call |-> "set_ylim"] >>,
     file |-> file]

\* Lines 89-102 of redraw_poster, after make_palette returned `made` (or
\* raised), the generators having been seeded to py0 and np0.
Paint5(n_layers, wobble_val, made, palette, py0, np0) ==
    IF made.raised
    THEN [raised |-> TRUE, py |-> py0, np |-> np0, n_layers |-> n_layers,
          palette |-> <<>>, blobs |-> <<>>,
          calls |-> << [call |-> "clear"], [call |-> "set_facecolor"],
                       [call |-> "axis"] >>,
          file |-> made.file]
    ELSE Framed5(palette, made.file,
                 Layers5(n_layers, made.rng, np0, palette, wobble_val))

\* Lines 88-90 of redraw_poster: palette = make_palette(6, mode=palette_mode)
\* and the fallback for an empty palette.
Palette5(n_layers, wobble_val, made, py0, np0) ==
    Paint5(n_layers, wobble_val, made,
           IF made.colors = <<>> THEN FallbackPalette ELSE made.colors, py0, np0)

\* redraw_poster(ax, n_layers, wobble_val, palette_mode, seed_val) with
\* palette.csv in state f; the result also has the file afterwards.
redraw_poster(n_layers, wobble_val, palette_mode, seed_val, py, np, f) ==
    Palette5(n_layers, wobble_val,
             make_palette(6, palette_mode, Reseed5(seed_val, py), f),
             Reseed5(seed_val, py), Reseed5(seed_val, np))

(***************************************************************************)
(* Generate Poster clicks.  Each app is a process of its own with its own  *)
(* generators, so one behaviour renders with one app.  `last` is the       *)
(* render; `prev` is one earlier render, remembered once, with `between`   *)
(* telling whether a render with another key came after it.                *)
(***************************************************************************)
MaxSeed == 1
MaxLayers == 2

\* Fixed widget values: wobble 0.15, light source (0.1, 0.9), edge colour.
WobbleDefault == <<15, 100>>
LightDefault == << (<<1, 10>>), (<<9, 10>>) >>
EdgeDefault == "#000000"

\* The process is the one of app `file`.
Runs(file) == IF last = NoCall THEN TRUE ELSE last.file = file

RenderRecord(file, key, out) ==
    [op |-> "render", file |-> file, key |-> key, raised |-> out.raised,
     n_layers |-> out.n_layers, palette |-> out.palette, blobs |-> out.blobs,
     calls |-> out.calls]

\* The bookkeeping of `prev` when the render `rec` is made.
Remember(rec) ==
    IF prev = NoCall
    THEN prev' \in {NoCall, [file |-> rec.file, key |-> rec.key, render |-> rec,
                             between |-> FALSE]}
    ELSE prev' = [prev EXCEPT !.between =
                      @ \/ rec.file # prev.file \/ rec.key # prev.key]

\* The render `rec` becomes the last one.
Recorded(rec) ==
    /\ last' = rec
    /\ Remember(rec)

\* st.pyplot(fig): the render `out` of app `file` is shown, the generators
\* are where the render left them.
Shown(file, key, out) ==
    /\ Runs(file)
    /\ Recorded(RenderRecord(file, key, out))
    /\ py_rng' = out.py
    /\ np_rng' = out.np

\* The styles picked in the 3_app selectbox, and one it does not offer.
RenderStyles3 == {"Minimal", UnknownStyle}

\* 3_app.py lines 124-127: generate_poster(style, seed if seed != 0 else None)
Render3 ==
    \E style \in RenderStyles3, seed \in 0..MaxSeed :
        /\ Shown("3_app", <<style, seed>>,
                 generate_poster(style, IF seed # 0 THEN seed ELSE None,
                                 py_rng, np_rng))
        /\ UNCHANGED <<palette_file, palette_df, ui>>

\* The styles picked in the 4_app selectbox, and one it does not offer.
RenderStyles4 == {"Pastel", "Vivid", UnknownStyle}

\* 4_app.py lines 171-174: generate_3d_poster(..., palette_style, seed)
Render4 ==
    \E palette_style \in RenderStyles4, num_layers \in 1..MaxLayers,
       seed \in 0..MaxSeed :
        /\ Shown("4_app", <<palette_style, seed, num_layers>>,
                 generate_3d_poster(num_layers, 3, WobbleDefault, LightDefault,
                                    EdgeDefault, palette_style, seed,
                                    py_rng, np_rng))
        /\ UNCHANGED <<palette_file, palette_df, ui>>

\* 5_app.py lines 165-168 in a script run that loaded `got` at lines
\* 113-114: redraw_poster(ax, n_layers, wobble_val, palette_mode, seed_val).
Generate5(palette_mode, seed_val, got, out) ==
    /\ ~got.raised
    /\ Shown("5_app", <<palette_mode, seed_val, got.file>>, out)
    /\ palette_file' = out.file
    /\ palette_df' = got.df
    /\ ui' = [op |-> "generate", loaded |-> got.df, msg |-> "", saved |-> FALSE]

\* Lines 113-114 of a 5_app script run with Generate Poster clicked.
Loaded5(palette_mode, seed_val, got) ==
    Generate5(palette_mode, seed_val, got,
              redraw_poster(3, WobbleDefault, palette_mode, seed_val,
                            py_rng, np_rng, got.file))

\* 5_app.py: a script run with Generate Poster clicked.
Render5 ==
    \E palette_mode \in Modes5 \cup {UnknownStyle}, seed_val \in 0..MaxSeed :
        Loaded5(palette_mode, seed_val, ScriptLoad(palette_file))

InitRender ==
    /\ palette_file = AbsentFile
    /\ palette_df = [cols |-> {}, rows |-> <<>>]
    /\ ui = NoRun
    /\ py_rng \in RngStates
    /\ np_rng \in RngStates
    /\ last = NoCall
    /\ prev = NoCall

NextRender == Render3 \/ Render4 \/ Render5

\* Generate Poster clicks in the three apps, in any order.
SpecRender == InitRender /\ [][NextRender]_vars

(***************************************************************************)
(* Claims about renders.                                                   *)
(***************************************************************************)
\* The render `last` repeats the remembered render `prev`: same app, same
\* widget values (and, for 5_app, the same palette.csv).
SameRender ==
    /\ prev # NoCall
    /\ last # NoCall
    /\ last.op = "render"
    /\ prev.file = last.file
    /\ prev.key = last.key

\* Layer count and the blobs' centers, radii, wobbles, alphas, colours and
\* outline points are the same in both renders.
SameBlobs ==
    /\ last.raised = prev.render.raised
    /\ last.n_layers = prev.render.n_layers
    /\ last.blobs = prev.render.blobs

\* 3_app rendered with the seed widget at 0, which it passes on as None.
Unseeded3 == last.file = "3_app" /\ last.key[2] = 0

\* C5 as claimed: in all three variants and for every seed 0..MaxSeed, two
\* renders with the same seed and parameters give the same layers and blobs.
C5_SeedDeterminism == SameRender => SameBlobs

\* C5 as amended: the same, except for 3_app with the seed widget at 0,
\* where the generators are not reseeded.
C5_SeedDeterminismSeeded == (SameRender /\ ~Unseeded3) => SameBlobs

\* A seeded render repeated after a render with other parameters.
C5_Witness ==
    /\ SameRender
    /\ ~Unseeded3
    /\ prev.between
    /\ ~last.raised
    /\ last.n_layers >= 1

\* The render `last` was made with a selector the variant does not list.
UnknownSelector == last # NoCall /\ last.op = "render" /\ last.key[1] = UnknownStyle

\* The call raised before any palette was made or any blob drawn.
RaisedEarly ==
    /\ last.raised
    /\ last.palette = <<>>
    /\ last.blobs = <<>>
    /\ \A j \in 1..Len(last.calls) : last.calls[j].call \notin {"fill", "add_patch", "imshow"}

\* C6 as claimed: generate_poster of 3_app, get_palette of 4_app and
\* make_palette of 5_app all raise on an unknown selector.
C6_UnknownRaises == UnknownSelector => RaisedEarly

\* C6 as amended: only generate_poster of 3_app raises; get_palette of 4_app
\* returns the k colours of Vivid and make_palette of 5_app the k colours of
\* its "random" branch.
C6_UnknownRaisesOrFallsBack ==
    UnknownSelector =>
        CASE last.file = "3_app" -> RaisedEarly
          [] last.file = "4_app" ->
                 /\ ~last.raised
                 /\ Len(last.palette) = 3
                 /\ last.palette = random_palette_vivid(3, Seeded(last.key[2])).colors
          [] OTHER ->
                 /\ ~last.raised
                 /\ Len(last.palette) = 6
                 /\ last.palette = HsvBands(6, Seeded(last.key[2]), 30, 100, 50, 100).colors

\* generate_poster of 3_app was called with an unknown style and raised.
C6_Witness == UnknownSelector /\ last.file = "3_app" /\ last.raised

\* The calls blob i of a 4_app render makes on ax, after the one ax.axis.
BlobCalls(i) == SubSeq(last.calls, 2 + (i - 1) * CallsPerBlob4, 1 + i * CallsPerBlob4)

\* The calls of a 4_app render: blob by blob in generation order; per blob
\* the shadow copies with falling alpha and then the two calls `pair`; the
\* label and the axis limits after the last blob.
DrawOrder(pair) ==
    (last # NoCall /\ last.op = "render" /\ last.file = "4_app") =>
        LET n == last.n_layers
            m == Len(last.calls)
        IN  /\ Len(last.blobs) = n
            /\ m = 1 + n * CallsPerBlob4 + 3
            /\ \A i \in 1..n :
                   LET c == BlobCalls(i)
                   IN  /\ \A j \in 1..CallsPerBlob4 : c[j].layer = i
                       /\ \A j \in 1..shadow_layers : c[j].call = "fill"
                       /\ \A j \in 1..(shadow_layers - 1) :
                              QLt(c[j + 1].alpha, c[j].alpha)
                       /\ << c[shadow_layers + 1].call, c[shadow_layers + 2].call >> = pair
                       /\ \E j \in 1..CallsPerBlob4 :
                              /\ c[j].call = "imshow"
                              /\ c[j].base = last.blobs[i].color
                              /\ c[j].alpha = last.blobs[i].alpha
            /\ << last.calls[m - 2].call, last.calls[m - 1].call, last.calls[m].call >>
                   = << "text", "set_xlim", "set_ylim" >>

\* C9 as claimed: per blob the shadows, then the gradient fill, then the
\* outline stroke.
C9_DrawOrder == DrawOrder(<< "imshow", "add_patch" >>)

\* C9 as amended: per blob the shadows, then the outline patch, then the
\* gradient image clipped to it.
C9_DrawOrderOutlineFirst == DrawOrder(<< "add_patch", "imshow" >>)

\* A 4_app render of two blobs or more.
C9_Witness ==
    /\ last # NoCall
    /\ last.op = "render"
    /\ last.file = "4_app"
    /\ last.n_layers >= 2

(***************************************************************************)
(* Claims about the seed widget.                                           *)
(***************************************************************************)
\* The render of app `file` with widget values `key` as it comes out when
\* the first random draw is made from generator states py and np, nothing
\* being reseeded.
DrawnFrom(file, key, py, np) ==
    CASE file = "3_app" -> generate_poster(key[1], None, py, np)
      [] file = "4_app" ->
             generate_3d_poster(key[3], 3, WobbleDefault, LightDefault,
                                EdgeDefault, key[1], None, py, np)
      [] OTHER ->
             Palette5(3, WobbleDefault, make_palette(6, key[1], py, key[3]), py, np)

\* The render `rec` has the layers, palette and blobs of the result `out`.
SameAs(rec, out) ==
    /\ rec.raised = out.raised
    /\ rec.n_layers = out.n_layers
    /\ rec.palette = out.palette
    /\ rec.blobs = out.blobs

\* The render `rec` is the one drawn from generator states py and np.
IsDrawnFrom(rec, py, np) == SameAs(rec, DrawnFrom(rec.file, rec.key, py, np))

\* This step is a Generate Poster click.
RenderStep == last' # NoCall /\ last'.op = "render" /\ vars' # vars

\* The step's render continues from the generators as they were.
NotReseeded == IsDrawnFrom(last', py_rng, np_rng)

\* The step's render starts from both generators seeded with the widget's
\* seed.
Reseeded == IsDrawnFrom(last', Seeded(last'.key[2]), Seeded(last'.key[2]))

\* C11 as claimed: in 3_app, 4_app and 5_app a render with seed 0 does not
\* reseed the generators, and a render with a seed in 1..MaxSeed reseeds both
\* before the first draw.
C11_ZeroUnseeded ==
    [][RenderStep => IF last'.key[2] = 0 THEN NotReseeded ELSE Reseeded]_vars

\* C11 as amended: only 3_app leaves the generators alone at seed 0; 4_app
\* and 5_app reseed both generators with every seed, 0 included, and 3_app
\* with every seed in 1..MaxSeed.
C11_ZeroUnseededIn3 ==
    [][RenderStep => IF last'.file = "3_app" /\ last'.key[2] = 0
                     THEN NotReseeded
                     ELSE Reseeded]_vars

\* 4_app rendered twice with seed 0 and the same widget values, another
\* render in between, and drew the same poster.
C11_Witness ==
    /\ SameRender
    /\ SameBlobs
    /\ last.file = "4_app"
    /\ last.key[2] = 0
    /\ prev.between
    /\ last.n_layers >= 1

(***************************************************************************)
(* The palette editor of 5_app.py followed by Generate Poster clicks in    *)
(* "csv" mode.  A render leaves palette.csv as it is and reseeds both      *)
(* generators, so the edits are all made before the first render.          *)
(***************************************************************************)
MaxCsvRows == 4

\* The number of rows the script loads from palette.csv.
StoreSize == Len(ScriptLoad(palette_file).df.rows)

\* A run with Add Color or Delete Selected Color clicked, before any render.
EditBeforeRender ==
    /\ last = NoCall
    /\ \/ StoreSize < MaxCsvRows /\ RunAdd
       \/ RunDelete

\* A run with Generate Poster clicked and Palette Mode "csv".
RenderCsv ==
    \E seed_val \in 0..MaxSeed :
        Loaded5("csv", seed_val, ScriptLoad(palette_file))

NextCsv == EditBeforeRender \/ RenderCsv

SpecCsv == InitStore /\ [][NextCsv]_vars

\* The (r, g, b) rows of the store the render `last` was made with.
StoredColors ==
    LET rows == Stored(last.key[3])
    IN  {Color(<<rows[j].r, rows[j].g, rows[j].b>>) : j \in 1..Len(rows)}

\* The ax.fill calls of the render `last`.
Fills == {j \in 1..Len(last.calls) : last.calls[j].call = "fill"}

\* C12: a render in "csv" mode completes and draws exactly n_layers blobs,
\* each filled with (0.5, 0.5, 0.5) when the store has no rows and with one
\* of the stored (r, g, b) rows otherwise.
C12_CsvRenderNeverEmpty ==
    (last # NoCall /\ last.op = "render" /\ last.key[1] = "csv") =>
        /\ ~last.raised
        /\ last.n_layers = 3
        /\ Len(last.blobs) = last.n_layers
        /\ Cardinality(Fills) = last.n_layers
        /\ \A i \in 1..Len(last.blobs) :
               IF StoredColors = {}
               THEN last.blobs[i].color = Color(<<5, 5, 5>>)
               ELSE last.blobs[i].color \in StoredColors
        /\ \A j \in Fills :
               last.calls[j].color = last.blobs[last.calls[j].layer].color

\* A render in "csv" mode after every row of the store was deleted.
C12_Witness ==
    /\ last # NoCall
    /\ last.op = "render"
    /\ last.key[1] = "csv"
    /\ last.key[3].exists
    /\ Stored(last.key[3]) = <<>>
    /\ Len(last.blobs) = 3

\* A render in "csv" mode with rows that were added in the store.
C12_WitnessRows ==
    /\ last # NoCall
    /\ last.op = "render"
    /\ last.key[1] = "csv"
    /\ Len(Stored(last.key[3])) = MaxCsvRows
    /\ \E i \in 1..Len(last.blobs) :
           last.blobs[i].color = Color(<<1, 2, 3>>)

====
